---- MODULE Spec2Model ----
(***************************************************************************)
(* Model of the two fuzzy inference programs of the repository:            *)
(*   src/laundry.py  washing-machine controller (module-level functions)   *)
(*   src/main.py     driving-speed controller (class FuzzyLogicSystem)     *)
(*                                                                         *)
(* Numbers.  The programs compute with Python floats.  The model computes  *)
(* with exact rationals <<n, d>> (d > 0, lowest terms), so every branch    *)
(* the code takes on a comparison is the branch the model takes, and a     *)
(* division by zero is the value ZeroDivisionError, which every operation  *)
(* propagates.  Floating-point rounding is not modelled.                   *)
(* gaussmf of main.py (an exponential) is not modelled: no membership      *)
(* function the program defines uses it.                                   *)
(***************************************************************************)
EXTENDS Integers, Sequences, FiniteSets, TLC

VARIABLES
    op,       \* name of the operation called
    args,     \* its arguments
    ret,      \* what it returned (or the exception it raised)
    pc,       \* "call" before the operation has run, "done" after
    MFS,      \* laundry.py: the module-level table MFS_DEFINITION
    fls,      \* main.py: the attributes of the FuzzyLogicSystem instance
    log,      \* history: the evaluations made so far, each with its result
    applied,  \* rules in any order: the rules already evaluated
    acts      \* rules in any order: intensity_activations so far

vars == <<op, args, ret, pc, MFS, fls, log, applied, acts>>

(***************************************************************************)
(* Bounds of the model.                                                    *)
(***************************************************************************)
MaxLen == 4      \* longest breakpoint list of a generic membership function
MaxX == 2        \* breakpoint x of a generic membership function: 0..MaxX
DegDen == 2      \* degrees of readings and activations are k/DegDen, k in 0..DegDen
GridDen == 1     \* crisp inputs are multiples of 2/GridDen (10/GridDen in main.py, 1/GridDen for the rules in any order)
MaxCalls == 4    \* evaluations in one run of repeated evaluations

(***************************************************************************)
(* Exact rational arithmetic standing for Python's float arithmetic.       *)
(***************************************************************************)
Abs(n) == IF n < 0 THEN -n ELSE n

RECURSIVE GCD(_, _)
GCD(a, b) == IF b = 0 THEN a ELSE GCD(b, a % b)

\* An exception in place of a number: <<code, 0>>.
ZeroDivisionError == <<0, 0>>

KeyError == <<1, 0>>

IsErr(a) == a[2] = 0


Frac(n, d) ==
    IF d = 0 THEN ZeroDivisionError
    ELSE LET g == GCD(Abs(n), Abs(d))
             s == IF d < 0 THEN -1 ELSE 1
         IN  <<(s * n) \div g, (s * d) \div g>>

Whole(n) == <<n, 1>>

Zero == Whole(0)

One == Whole(1)

Add(a, b) ==
    IF IsErr(a) THEN a ELSE IF IsErr(b) THEN b
    ELSE Frac(a[1] * b[2] + b[1] * a[2], a[2] * b[2])

Sub(a, b) ==
    IF IsErr(a) THEN a ELSE IF IsErr(b) THEN b
    ELSE Frac(a[1] * b[2] - b[1] * a[2], a[2] * b[2])

Mul(a, b) ==
    IF IsErr(a) THEN a ELSE IF IsErr(b) THEN b
    ELSE Frac(a[1] * b[1], a[2] * b[2])

Div(a, b) ==
    IF IsErr(a) THEN a ELSE IF IsErr(b) THEN b
    ELSE Frac(a[1] * b[2], a[2] * b[1])

Lt(a, b) == a[1] * b[2] < b[1] * a[2]

Le(a, b) == a[1] * b[2] <= b[1] * a[2]

\* A Python list or numpy array built element by element: the sequence f, held
\* as its elements.
List(f) == SubSeq(f, 1, Len(f))

\* 0.0 + arr[lo] + ... + arr[hi], the sum a loop or np.sum accumulates; exact
\* addition is associative, so the sum is taken by halves to keep the
\* evaluation shallow.
RECURSIVE sum_range(_, _, _)
sum_range(arr, lo, hi) ==
    IF lo > hi THEN Zero
    ELSE IF lo = hi THEN arr[lo]
    ELSE Add(sum_range(arr, lo, (lo + hi) \div 2),
             sum_range(arr, (lo + hi) \div 2 + 1, hi))

\* Python's min(a, b): a unless b < a.
Min2(a, b) ==
    IF IsErr(a) THEN a ELSE IF IsErr(b) THEN b
    ELSE IF Lt(b, a) THEN b ELSE a

\* Python's max(a, b): a unless b > a.
Max2(a, b) ==
    IF IsErr(a) THEN a ELSE IF IsErr(b) THEN b
    ELSE IF Lt(a, b) THEN b ELSE a

(***************************************************************************)
(* laundry.py: get_membership.  A breakpoint is <<x, y>>, a membership      *)
(* function a sequence of breakpoints.                                     *)
(***************************************************************************)

\* Mutation of segment_value: an input on the right end of the segment gets
\* the left end's degree.
segment_value_right_end_as_left(input_val, p1, p2) ==
    LET x1 == p1[1]
        y1 == p1[2]
        x2 == p2[1]
        y2 == p2[2]
    IN  IF input_val = x1 THEN y1
        ELSE IF input_val = x2 THEN y1
        ELSE IF y1 = y2 THEN y1
        ELSE IF x1 = x2 THEN y1
        ELSE LET slope == Div(Sub(y2, y1), Sub(x2, x1))
                 intercept == Sub(y1, Mul(slope, x1))
             IN  Add(Mul(slope, input_val), intercept)

\* Mutation of segment_value: the line is not shifted to pass through
\* (x1, y1); the intercept is y1.
segment_value_unshifted(input_val, p1, p2) ==
    LET x1 == p1[1]
        y1 == p1[2]
        x2 == p2[1]
        y2 == p2[2]
    IN  IF input_val = x1 THEN y1
        ELSE IF input_val = x2 THEN y2
        ELSE IF y1 = y2 THEN y1
        ELSE IF x1 = x2 THEN y1
        ELSE LET slope == Div(Sub(y2, y1), Sub(x2, x1))
             IN  Add(Mul(slope, input_val), y1)

\* Lines 37-45: the value on the segment p1..p2 once x1 <= input_val <= x2.
segment_value(input_val, p1, p2) ==
    LET x1 == p1[1]
        y1 == p1[2]
        x2 == p2[1]
        y2 == p2[2]
    IN  IF input_val = x1 THEN y1
        ELSE IF input_val = x2 THEN y2
        ELSE IF y1 = y2 THEN y1
        ELSE IF x1 = x2 THEN y1
        ELSE LET slope == Div(Sub(y2, y1), Sub(x2, x1))
                 intercept == Sub(y1, Mul(slope, x1))
             IN  Add(Mul(slope, input_val), intercept)

\* Lines 32-47: for i in range(len(points) - 1), from index i (1-based) on.
RECURSIVE segment_loop(_, _, _)
segment_loop(i, input_val, points) ==
    IF i > Len(points) - 1 THEN Zero
    ELSE IF Le(points[i][1], input_val) /\ Le(input_val, points[i + 1][1])
         THEN segment_value(input_val, points[i], points[i + 1])
         ELSE segment_loop(i + 1, input_val, points)

\* Mutation of get_membership: no clamping; an input at or beyond the ends of
\* the list has degree 0.
get_membership_unclamped(input_val, points) ==
    IF points = <<>> THEN Zero
    ELSE IF Le(input_val, points[1][1]) THEN Zero
    ELSE IF Le(points[Len(points)][1], input_val) THEN Zero
    ELSE segment_loop(1, input_val, points)

get_membership(input_val, points) ==
    IF points = <<>> THEN Zero
    ELSE IF Le(input_val, points[1][1]) THEN points[1][2]
    ELSE IF Le(points[Len(points)][1], input_val) THEN points[Len(points)][2]
    ELSE segment_loop(1, input_val, points)

(***************************************************************************)
(* laundry.py: the tables, fuzzify, apply_rules, aggregate, defuzzify.     *)
(* A dict is a function on its keys; the order Python iterates it in is    *)
(* the order of the key sequences below.                                   *)
(***************************************************************************)
P(x, y) == <<Whole(x), Whole(y)>>

MFS_DEFINITION ==
    [dirtiness |->
        [Low    |-> <<P(0, 1), P(2, 1), P(4, 0), P(10, 0)>>,
         Medium |-> <<P(0, 0), P(2, 0), P(5, 1), P(8, 0), P(10, 0)>>,
         High   |-> <<P(0, 0), P(6, 0), P(8, 1), P(10, 1)>>],
     quantity |->
        [Light  |-> <<P(0, 1), P(2, 1), P(5, 0), P(12, 0)>>,
         Medium |-> <<P(0, 0), P(3, 0), P(6, 1), P(9, 0), P(12, 0)>>,
         Heavy  |-> <<P(0, 0), P(7, 0), P(10, 1), P(12, 1)>>],
     intensity |->
        [Light  |-> <<P(0, 1), P(20, 1), P(40, 0), P(100, 0)>>,
         Normal |-> <<P(0, 0), P(30, 0), P(50, 1), P(70, 0), P(100, 0)>>,
         Strong |-> <<P(0, 0), P(60, 0), P(80, 1), P(100, 1)>>]]

DirtinessLabels == {"Low", "Medium", "High"}

QuantityLabels == {"Light", "Medium", "Heavy"}

IntensityOrder == <<"Light", "Normal", "Strong">>

IntensityLabels == {"Light", "Normal", "Strong"}

fuzzify(input_val, mfs) ==
    [set_name \in DOMAIN mfs |-> get_membership(input_val, mfs[set_name])]

\* dict.get(key, 0.0)
Get(dict, key) == IF key \in DOMAIN dict THEN dict[key] ELSE Zero

\* The nine rules of apply_rules in the order they are written: the labels
\* looked up in dirtiness_mfs and quantity_mfs and the activation assigned.
RULES ==
    << [d |-> "Low",    q |-> "Light",  out |-> "Light"],
       [d |-> "Low",    q |-> "Medium", out |-> "Light"],
       [d |-> "Low",    q |-> "Heavy",  out |-> "Strong"],
       [d |-> "Medium", q |-> "Light",  out |-> "Light"],
       [d |-> "Medium", q |-> "Medium", out |-> "Normal"],
       [d |-> "Medium", q |-> "Heavy",  out |-> "Strong"],
       [d |-> "High",   q |-> "Light",  out |-> "Light"],
       [d |-> "High",   q |-> "Medium", out |-> "Strong"],
       [d |-> "High",   q |-> "Heavy",  out |-> "Strong"] >>

\* Mutation of rule_step: the rule's strength overwrites the activation.
rule_step_overwrite(k, intensity_activations, dirtiness_mfs, quantity_mfs) ==
    LET rule == Min2(Get(dirtiness_mfs, RULES[k].d), Get(quantity_mfs, RULES[k].q))
    IN  [intensity_activations EXCEPT ![RULES[k].out] = rule]

\* Mutation of rule_step: strengths of rules with one consequent add up.
rule_step_sum(k, intensity_activations, dirtiness_mfs, quantity_mfs) ==
    LET rule == Min2(Get(dirtiness_mfs, RULES[k].d), Get(quantity_mfs, RULES[k].q))
    IN  [intensity_activations EXCEPT ![RULES[k].out] = Add(@, rule)]

\* The two statements of rule k:
\*   rulek = min(dirtiness_mfs.get(..), quantity_mfs.get(..))
\*   intensity_activations[out] = max(intensity_activations[out], rulek)
rule_step(k, intensity_activations, dirtiness_mfs, quantity_mfs) ==
    LET rule == Min2(Get(dirtiness_mfs, RULES[k].d), Get(quantity_mfs, RULES[k].q))
    IN  [intensity_activations EXCEPT ![RULES[k].out] = Max2(@, rule)]

\* Line 60.
initial_activations == [l \in IntensityLabels |-> Zero]

\* The statements of rules 1..k, in the written order.
RECURSIVE rules_upto(_, _, _)
rules_upto(k, dirtiness_mfs, quantity_mfs) ==
    IF k = 0 THEN initial_activations
    ELSE rule_step(k, rules_upto(k - 1, dirtiness_mfs, quantity_mfs),
                   dirtiness_mfs, quantity_mfs)

apply_rules(dirtiness_mfs, quantity_mfs) ==
    rules_upto(Len(RULES), dirtiness_mfs, quantity_mfs)

\* activations.items(): the keys present, in insertion order.
Items(activations) ==
    SelectSeq(IntensityOrder, LAMBDA l : l \in DOMAIN activations)

\* Mutation of aggregate_step: the set is united unclipped, whatever its
\* activation strength.
aggregate_step_unclipped(agg_value, act_strength, x_intensity, points) ==
    Max2(agg_value, get_membership(x_intensity, points))

\* Mutation of aggregate_step: the clipped value of an active set replaces the
\* running value instead of being united with it by max.
aggregate_step_overwrite(agg_value, act_strength, x_intensity, points) ==
    IF Lt(Zero, act_strength)
    THEN Min2(act_strength, get_membership(x_intensity, points))
    ELSE agg_value

\* Lines 105-108: the body of aggregate's loop for one (set_name, act_strength).
aggregate_step(agg_value, act_strength, x_intensity, points) ==
    IF Lt(Zero, act_strength)
    THEN LET original == get_membership(x_intensity, points)
             clipped == Min2(act_strength, original)
         IN  Max2(agg_value, clipped)
    ELSE agg_value

RECURSIVE aggregate_loop(_, _, _, _)
aggregate_loop(items, x_intensity, activations, intensity_mfs) ==
    IF items = <<>> THEN Zero
    ELSE aggregate_step(
             aggregate_loop(SubSeq(items, 1, Len(items) - 1), x_intensity,
                            activations, intensity_mfs),
             activations[items[Len(items)]], x_intensity,
             intensity_mfs[items[Len(items)]])

aggregate(x_intensity, activations, intensity_mfs) ==
    aggregate_loop(Items(activations), x_intensity, activations, intensity_mfs)

NumSamples == 101

MinX == 0

MaxOutX == 100

\* Line 115.
x_samples(num_samples) ==
    List([j \in 1..num_samples |->
            Add(Whole(MinX),
                Div(Mul(Whole(j - 1), Sub(Whole(MaxOutX), Whole(MinX))),
                    Whole(num_samples - 1)))])

\* Lines 119-125: agg_points after the loop over x_samples.
defuzzify_loop(xs, activations, intensity_mfs) ==
    List([j \in DOMAIN xs |-> <<xs[j], aggregate(xs[j], activations, intensity_mfs)>>])

\* Mutation of num_sum_of: num_sum += x.
num_sum_of_unweighted(agg_points) ==
    sum_range([j \in DOMAIN agg_points |-> agg_points[j][1]], 1, Len(agg_points))

\* Lines 117-124: num_sum after the loop, the sum of x * y over the samples.
num_sum_of(agg_points) ==
    sum_range([j \in DOMAIN agg_points |-> Mul(agg_points[j][1], agg_points[j][2])],
              1, Len(agg_points))

\* Lines 118-124: denom_sum after the loop, the sum of y over the samples.
denom_sum_of(agg_points) ==
    sum_range([j \in DOMAIN agg_points |-> agg_points[j][2]], 1, Len(agg_points))

\* Mutation of defuzzify_result: the fallback is the middle of the domain.
defuzzify_result_midpoint(num_sum, denom_sum, agg_points) ==
    IF denom_sum = Zero THEN <<Whole(50), agg_points>>
    ELSE <<Div(num_sum, denom_sum), agg_points>>

\* Lines 127-130.
defuzzify_result(num_sum, denom_sum, agg_points) ==
    IF denom_sum = Zero THEN <<Zero, agg_points>>
    ELSE <<Div(num_sum, denom_sum), agg_points>>

\* Lines 127-130 on the sums of the curve.
defuzzify_curve(agg_points) ==
    defuzzify_result(num_sum_of(agg_points), denom_sum_of(agg_points), agg_points)

defuzzify(activations, intensity_mfs, num_samples) ==
    defuzzify_curve(defuzzify_loop(x_samples(num_samples), activations, intensity_mfs))

(***************************************************************************)
(* main.py: class FuzzyLogicSystem.  A numpy array is a sequence and the   *)
(* numpy operations act on it element by element.                          *)
(***************************************************************************)
Clip01(y) == IF IsErr(y) THEN y ELSE IF Lt(y, Zero) THEN Zero ELSE IF Lt(One, y) THEN One ELSE y

\* trapmf for one element x of the array.
trapmf(x, params) ==
    LET a == params[1]
        b == params[2]
        c == params[3]
        d == params[4]
        y0 == Zero
        y1 == IF Le(a, x) /\ Le(x, b)
              THEN (IF b # a THEN Div(Sub(x, a), Sub(b, a)) ELSE One)
              ELSE y0
        y2 == IF Lt(b, x) /\ Lt(x, c) THEN One ELSE y1
        y3 == IF Le(c, x) /\ Le(x, d)
              THEN (IF d # c THEN Div(Sub(d, x), Sub(d, c)) ELSE One)
              ELSE y2
        y4 == IF b = c /\ x = b THEN One ELSE y3
    IN  Clip01(y4)

\* trimf for one element x of the array.
trimf(x, params) ==
    LET a == params[1]
        b == params[2]
        c == params[3]
        y0 == Zero
        y1 == IF Le(a, x) /\ Le(x, b)
              THEN (IF b # a THEN Div(Sub(x, a), Sub(b, a)) ELSE One)
              ELSE y0
        y2 == IF Lt(b, x) /\ Le(x, c)
              THEN (IF c # b THEN Div(Sub(c, x), Sub(c, b)) ELSE One)
              ELSE y1
        y3 == IF x = b THEN One ELSE y2
    IN  Clip01(y3)

ValueError == <<2, 0>>

ExcName(a) ==
    IF a = ZeroDivisionError THEN "ZeroDivisionError"
    ELSE IF a = KeyError THEN "KeyError"
    ELSE "ValueError"

\* For one element; gaussmf is not modelled.
get_membership_value(x, func_type, params) ==
    IF func_type = "trapmf" THEN trapmf(x, params)
    ELSE IF func_type = "trimf" THEN trimf(x, params)
    ELSE ValueError

\* np.arange(start, stop, 1)
arange(start, stop) == List([j \in 1..(stop - start) |-> Whole(start + j - 1)])

Q4(a, b, c, d) == <<Whole(a), Whole(b), Whole(c), Whole(d)>>

\* The attributes __init__ sets (np.arange arguments start, stop; step 1).
constructed ==
    [temp_range |-> <<30, 90>>, cloud_range |-> <<0, 101>>, speed_range |-> <<0, 101>>]

\* The attributes define_membership_functions adds.
define_membership_functions(self) ==
    [n \in DOMAIN self \cup {"temp_functions", "cloud_functions", "speed_functions"} |->
        IF n = "temp_functions"
        THEN [Cool |-> <<"trapmf", Q4(30, 35, 55, 65)>>,
              Warm |-> <<"trapmf", Q4(55, 65, 85, 90)>>]
        ELSE IF n = "cloud_functions"
        THEN [Sunny  |-> <<"trapmf", Q4(0, 5, 25, 35)>>,
              Cloudy |-> <<"trapmf", Q4(25, 50, 90, 100)>>]
        ELSE IF n = "speed_functions"
        THEN [Slow |-> <<"trapmf", Q4(0, 10, 35, 45)>>,
              Fast |-> <<"trapmf", Q4(45, 60, 90, 100)>>]
        ELSE self[n]]

speed_range(self) == arange(self.speed_range[1], self.speed_range[2])

fuzzify_inputs(self, temperature, cloud_cover) ==
    [Cool   |-> get_membership_value(temperature, self.temp_functions["Cool"][1],
                                     self.temp_functions["Cool"][2]),
     Warm   |-> get_membership_value(temperature, self.temp_functions["Warm"][1],
                                     self.temp_functions["Warm"][2]),
     Sunny  |-> get_membership_value(cloud_cover, self.cloud_functions["Sunny"][1],
                                     self.cloud_functions["Sunny"][2]),
     Cloudy |-> get_membership_value(cloud_cover, self.cloud_functions["Cloudy"][1],
                                     self.cloud_functions["Cloudy"][2])]

\* dict[key]
Index(dict, key) == IF key \in DOMAIN dict THEN dict[key] ELSE KeyError

\* FuzzyLogicSystem.apply_rules
FLS_apply_rules(memberships) ==
    [Fast |-> Min2(Index(memberships, "Sunny"), Index(memberships, "Warm")),
     Slow |-> Min2(Index(memberships, "Cloudy"), Index(memberships, "Cool"))]

\* np.minimum(strength, self.get_membership_value(self.speed_range, ...))
clipped_output(xs, strength, func) ==
    List([j \in DOMAIN xs |->
            Min2(strength, get_membership_value(xs[j], func[1], func[2]))])

\* Lines 166-169: np.maximum of the two clipped sets and what is returned,
\* <<combined_output, {'Fast': fast_output, 'Slow': slow_output}>>.
combine_outputs(fast_output, slow_output) ==
    << List([j \in DOMAIN fast_output |-> Max2(fast_output[j], slow_output[j])]),
       [Fast |-> fast_output, Slow |-> slow_output] >>

aggregate_outputs(self, rule_outputs) ==
    combine_outputs(
        clipped_output(speed_range(self), Index(rule_outputs, "Fast"),
                       self.speed_functions["Fast"]),
        clipped_output(speed_range(self), Index(rule_outputs, "Slow"),
                       self.speed_functions["Slow"]))

np_sum(arr) == sum_range(arr, 1, Len(arr))

\* np.sum(self.speed_range * output_fuzzy_set)
weighted_sum(xs, output_fuzzy_set) ==
    np_sum([j \in DOMAIN xs |-> Mul(xs[j], output_fuzzy_set[j])])

\* Mutation of FLS_defuzzify: the zero-sum guard is missing.
FLS_defuzzify_unguarded(self, output_fuzzy_set) ==
    Div(weighted_sum(speed_range(self), output_fuzzy_set), np_sum(output_fuzzy_set))

\* Mutation of FLS_defuzzify: the weights are not normalised by their sum.
FLS_defuzzify_unnormalised(self, output_fuzzy_set) ==
    IF np_sum(output_fuzzy_set) = Zero THEN Whole(50)
    ELSE weighted_sum(speed_range(self), output_fuzzy_set)

\* FuzzyLogicSystem.defuzzify
FLS_defuzzify(self, output_fuzzy_set) ==
    IF np_sum(output_fuzzy_set) = Zero THEN Whole(50)
    ELSE Div(weighted_sum(speed_range(self), output_fuzzy_set), np_sum(output_fuzzy_set))

\* Lines 191-207 of evaluate, after the aggregation.
evaluate_defuzzify(self, memberships, rule_outputs, combined_output) ==
    <<FLS_defuzzify(self, combined_output), memberships, rule_outputs, combined_output>>

\* Lines 185-189 of evaluate, after the fuzzification.
evaluate_rules(self, memberships, rule_outputs) ==
    evaluate_defuzzify(self, memberships, rule_outputs,
                       aggregate_outputs(self, rule_outputs)[1])

\* FuzzyLogicSystem.evaluate; show_details only prints.  The result is
\* <<final_speed, memberships, rule_outputs>> followed by the local
\* combined_output, which evaluate does not return.
evaluate(self, temperature, cloud_cover) ==
    LET memberships == fuzzify_inputs(self, temperature, cloud_cover)
    IN  evaluate_rules(self, memberships, FLS_apply_rules(memberships))

\* Lines 244-255 of laundry.py: the defuzzified pass.
laundry_result(dirtiness_mfs, quantity_mfs, intensity_acts, d) ==
    [dirtiness_mfs |-> dirtiness_mfs, quantity_mfs |-> quantity_mfs,
     intensity_acts |-> intensity_acts, intensity_cog |-> d[1], agg_curve |-> d[2]]

\* Lines 238-244 of laundry.py.
laundry_rules(dirtiness_mfs, quantity_mfs, intensity_acts, mfs) ==
    laundry_result(dirtiness_mfs, quantity_mfs, intensity_acts,
                   defuzzify(intensity_acts, mfs.intensity, NumSamples))

\* Lines 226-244 of laundry.py: one pass of the main loop's computation.
laundry_main(dirtiness, quantity, mfs) ==
    LET dirtiness_mfs == fuzzify(dirtiness, mfs.dirtiness)
        quantity_mfs == fuzzify(quantity, mfs.quantity)
    IN  laundry_rules(dirtiness_mfs, quantity_mfs,
                      apply_rules(dirtiness_mfs, quantity_mfs), mfs)

(***************************************************************************)
(* Inputs of the calls.                                                    *)
(***************************************************************************)
Degrees == {Frac(k, DegDen) : k \in 0..DegDen}

\* The degrees of the breakpoints of a generic membership function.
ListDegrees == {Zero, Frac(1, 2), One}

Breakpoints == {<<Whole(x), y>> : x \in 0..MaxX, y \in ListDegrees}

NonDecreasing(points) ==
    \A i \in 1..(Len(points) - 1) : Le(points[i][1], points[i + 1][1])

PointLists ==
    UNION {{p \in [1..n -> Breakpoints] : NonDecreasing(p)} : n \in 0..MaxLen}

ProbeXs == {Whole(x) : x \in (-1)..(MaxX + 1)}

\* Dicts over some of the labels (a missing label is a missing key).
PartialDicts(labels) == UNION {[S -> Degrees] : S \in SUBSET labels}

\* The x of the main loop's table, range(0, 101, 5).
TableXs == {Whole(5 * k) : k \in 0..20}

\* Crisp inputs, in and out of the variables' domains 0..10, 0..12, 30..90
\* and 0..100.
DirtinessInputs == {Frac(2 * k, GridDen) : k \in (-GridDen)..(6 * GridDen)}

QuantityInputs == {Frac(2 * k, GridDen) : k \in (-GridDen)..(7 * GridDen)}

TemperatureInputs == {Frac(10 * k, GridDen) : k \in (2 * GridDen)..(10 * GridDen)}

CloudInputs == {Frac(10 * k, GridDen) : k \in (-GridDen)..(11 * GridDen)}

FLSLabels == {"Cool", "Warm", "Sunny", "Cloudy"}

SpeedLabels == {"Fast", "Slow"}

\* The calls: the operation and its arguments.
\* Lists where three breakpoints share an interior x: two vertical segments
\* one on top of the other.
StackedLists ==
    {<< <<Zero, a>>, <<Whole(x), b>>, <<Whole(x), c>>, <<Whole(x), d>>,
        <<Whole(MaxX), e>> >> :
        x \in 1..(MaxX - 1), a \in ListDegrees, b \in ListDegrees,
        c \in ListDegrees, d \in ListDegrees, e \in ListDegrees}

\* Inputs off the breakpoints and off the middle of a segment: 1/4, 5/4, ...
InsideXs == {Frac(4 * k + 1, 4) : k \in 0..(MaxX - 1)}

GetMembershipArgs ==
    {[input_val |-> x, points |-> p] :
        x \in ProbeXs \cup InsideXs, p \in PointLists \cup StackedLists}

ApplyRulesArgs ==
    {[dirtiness_mfs |-> d, quantity_mfs |-> q] :
        d \in PartialDicts(DirtinessLabels), q \in PartialDicts(QuantityLabels)}

AggregateArgs ==
    {[x_intensity |-> x, activations |-> a] :
        x \in TableXs, a \in PartialDicts(IntensityLabels)}

DefuzzifyArgs == {[activations |-> a] : a \in PartialDicts(IntensityLabels)}

\* The x of the breakpoints of a variable's membership functions: the inputs
\* where a label's degree starts or stops being 0 or 1.
Knees(variable) ==
    UNION {{variable[l][i][1] : i \in DOMAIN variable[l]} : l \in DOMAIN variable}

LaundryMainArgs ==
    {[dirtiness |-> d, quantity |-> q] :
        d \in DirtinessInputs \cup Knees(MFS_DEFINITION.dirtiness),
        q \in QuantityInputs \cup Knees(MFS_DEFINITION.quantity)}

EvaluateArgs ==
    {[temperature |-> t, cloud_cover |-> c] : t \in TemperatureInputs, c \in CloudInputs}

FLSApplyRulesArgs == {[memberships |-> m] : m \in [FLSLabels -> Degrees]}

AggregateOutputsArgs == {[rule_outputs |-> r] : r \in [SpeedLabels -> Degrees]}

\* The curves defuzzify is handed: what aggregate_outputs makes of rule strengths.
FLSDefuzzifyArgs ==
    {[output_fuzzy_set |->
         aggregate_outputs(define_membership_functions(constructed), r)[1]] :
        r \in [SpeedLabels -> Degrees]}

(***************************************************************************)
(* State machine.  A behaviour is one call: Init draws the function and    *)
(* its arguments, the function's action runs it and records the result.    *)
(***************************************************************************)
Vals(f) == {f[k] : k \in DOMAIN f}

\* What a call hands back: the value, or the exception a number of it stands for.
Outcome(value, numbers) ==
    IF \E e \in numbers : IsErr(e)
    THEN [raised |-> ExcName(CHOOSE e \in numbers : IsErr(e)), value |-> <<>>]
    ELSE [raised |-> "", value |-> value]

AttributeError == [raised |-> "AttributeError", value |-> <<>>]

\* No FuzzyLogicSystem instance: a run of laundry.py.
NoInstance == <<>>

FLSOps == {"FLS.evaluate", "FLS.apply_rules", "FLS.aggregate_outputs", "FLS.defuzzify"}

NotCalled == [raised |-> "", value |-> <<>>]

Defined(self) == "speed_functions" \in DOMAIN self

Init ==
    /\ \/ op = "get_membership" /\ args \in GetMembershipArgs
       \/ op = "apply_rules" /\ args \in ApplyRulesArgs
       \/ op = "aggregate" /\ args \in AggregateArgs
       \/ op = "defuzzify" /\ args \in DefuzzifyArgs
       \/ op = "laundry_main" /\ args \in LaundryMainArgs
       \/ op = "FLS.evaluate" /\ args \in EvaluateArgs
       \/ op = "FLS.apply_rules" /\ args \in FLSApplyRulesArgs
       \/ op = "FLS.aggregate_outputs" /\ args \in AggregateOutputsArgs
       \/ op = "FLS.defuzzify" /\ args \in FLSDefuzzifyArgs
    /\ pc = "call"
    /\ ret = NotCalled
    /\ MFS = MFS_DEFINITION
    /\ fls = IF op \in FLSOps THEN constructed ELSE NoInstance
    /\ log = <<>>
    /\ applied = {}
    /\ acts = <<>>

Return(r) ==
    /\ ret' = r
    /\ pc' = "done"
    /\ UNCHANGED <<op, args, MFS, fls, log, applied, acts>>

NumberOutcome(v) == Outcome(v, {v})

DictOutcome(v) == Outcome(v, Vals(v))

DefuzzifyOutcome(v) == Outcome(v, {v[1]} \cup {pt[2] : pt \in Vals(v[2])})

LaundryOutcome(v) ==
    Outcome(v, Vals(v.dirtiness_mfs) \cup Vals(v.quantity_mfs)
               \cup Vals(v.intensity_acts) \cup {v.intensity_cog}
               \cup {pt[2] : pt \in Vals(v.agg_curve)})

EvaluateOutcome(v) ==
    Outcome(v, {v[1]} \cup Vals(v[2]) \cup Vals(v[3]) \cup Vals(v[4]))

AggregateOutputsOutcome(v) == Outcome(v, Vals(v[1]))

CallGetMembership ==
    /\ pc = "call" /\ op = "get_membership"
    /\ Return(NumberOutcome(get_membership(args.input_val, args.points)))

CallApplyRules ==
    /\ pc = "call" /\ op = "apply_rules"
    /\ Return(DictOutcome(apply_rules(args.dirtiness_mfs, args.quantity_mfs)))

CallAggregate ==
    /\ pc = "call" /\ op = "aggregate"
    /\ Return(NumberOutcome(aggregate(args.x_intensity, args.activations, MFS.intensity)))

CallDefuzzify ==
    /\ pc = "call" /\ op = "defuzzify"
    /\ Return(DefuzzifyOutcome(defuzzify(args.activations, MFS.intensity, NumSamples)))

CallLaundryMain ==
    /\ pc = "call" /\ op = "laundry_main"
    /\ Return(LaundryOutcome(laundry_main(args.dirtiness, args.quantity, MFS)))

DefineMembershipFunctions ==
    /\ pc = "call"
    /\ fls # NoInstance
    /\ ~Defined(fls)
    /\ fls' = define_membership_functions(fls)
    /\ UNCHANGED <<op, args, ret, pc, MFS, log, applied, acts>>

CallEvaluate ==
    /\ pc = "call" /\ op = "FLS.evaluate"
    /\ IF ~Defined(fls) THEN Return(AttributeError)
       ELSE Return(EvaluateOutcome(evaluate(fls, args.temperature, args.cloud_cover)))

CallFLSApplyRules ==
    /\ pc = "call" /\ op = "FLS.apply_rules"
    /\ Return(DictOutcome(FLS_apply_rules(args.memberships)))

CallAggregateOutputs ==
    /\ pc = "call" /\ op = "FLS.aggregate_outputs"
    /\ IF ~Defined(fls) THEN Return(AttributeError)
       ELSE Return(AggregateOutputsOutcome(aggregate_outputs(fls, args.rule_outputs)))

CallFLSDefuzzify ==
    /\ pc = "call" /\ op = "FLS.defuzzify"
    /\ Return(NumberOutcome(FLS_defuzzify(fls, args.output_fuzzy_set)))

Next ==
    \/ CallGetMembership
    \/ CallApplyRules
    \/ CallAggregate
    \/ CallDefuzzify
    \/ CallLaundryMain
    \/ DefineMembershipFunctions
    \/ CallEvaluate
    \/ CallFLSApplyRules
    \/ CallAggregateOutputs
    \/ CallFLSDefuzzify

Spec == Init /\ [][Next]_vars

(***************************************************************************)
(* Repeated evaluations.  The program is set up (MFS_DEFINITION loaded, the *)
(* FuzzyLogicSystem constructed and its membership functions defined, as   *)
(* test_fuzzy_system does) and evaluates inputs one after the other: the   *)
(* passes of laundry.py's main loop, the evaluate calls of main.py.        *)
(***************************************************************************)
RepeatedLaundryInputs ==
    {[dirtiness |-> Whole(3), quantity |-> Whole(4)],
     [dirtiness |-> Whole(10), quantity |-> Whole(12)]}

RepeatedFLSInputs ==
    {[temperature |-> Whole(60), cloud_cover |-> Whole(30)],
     [temperature |-> Whole(70), cloud_cover |-> Whole(50)]}

InitRepeated ==
    /\ op = ""
    /\ args = <<>>
    /\ ret = NotCalled
    /\ pc = "idle"
    /\ MFS = MFS_DEFINITION
    /\ fls = define_membership_functions(constructed)
    /\ log = <<>>
    /\ applied = {}
    /\ acts = <<>>

Logged(name, a, r) ==
    /\ op' = name
    /\ args' = a
    /\ ret' = r
    /\ pc' = "done"
    /\ log' = Append(log, [op |-> name, args |-> a, ret |-> r])

\* Mutation of LaundryPass: agg_points outlives the call, so a pass appends
\* its samples to those of the pass before it.
LaundryPass_keeps_agg_points(a) ==
    /\ Len(log) < MaxCalls
    /\ Logged("laundry_main", a,
              LET r == LaundryOutcome(laundry_main(a.dirtiness, a.quantity, MFS))
              IN  IF op = "laundry_main"
                  THEN [r EXCEPT !.value.agg_curve = ret.value.agg_curve \o @]
                  ELSE r)
    /\ UNCHANGED <<MFS, fls, applied, acts>>

\* One pass of laundry.py's main loop, lines 226-244: every value it computes
\* is a local of the pass, and MFS_DEFINITION is only read.
LaundryPass(a) ==
    /\ Len(log) < MaxCalls
    /\ Logged("laundry_main", a,
              LaundryOutcome(laundry_main(a.dirtiness, a.quantity, MFS)))
    /\ UNCHANGED <<MFS, fls, applied, acts>>

\* One call of FuzzyLogicSystem.evaluate: it assigns no attribute of self.
EvaluateCall(a) ==
    /\ Len(log) < MaxCalls
    /\ Logged("FLS.evaluate", a,
              EvaluateOutcome(evaluate(fls, a.temperature, a.cloud_cover)))
    /\ UNCHANGED <<MFS, fls, applied, acts>>

RepeatLaundry == \E a \in RepeatedLaundryInputs : LaundryPass(a)

RepeatEvaluate == \E a \in RepeatedFLSInputs : EvaluateCall(a)

NextRepeated ==
    \/ RepeatLaundry
    \/ RepeatEvaluate

SpecRepeated == InitRepeated /\ [][NextRepeated]_vars

(***************************************************************************)
(* The nine rules evaluated in any order: each step evaluates one rule not *)
(* yet evaluated, on the activations so far.                               *)
(***************************************************************************)
\* The fuzzified readings of the inputs k/GridDen, in and out of the domains.
Readings ==
    {[dirtiness_mfs |-> fuzzify(Frac(d, GridDen), MFS_DEFINITION.dirtiness),
      quantity_mfs |-> fuzzify(Frac(q, GridDen), MFS_DEFINITION.quantity)] :
        d \in (-GridDen)..(11 * GridDen), q \in (-GridDen)..(13 * GridDen)}

InitAnyOrder ==
    /\ op = "apply_rules"
    /\ args \in Readings
    /\ ret = NotCalled
    /\ pc = "call"
    /\ MFS = MFS_DEFINITION
    /\ fls = NoInstance
    /\ log = <<>>
    /\ applied = {}
    /\ acts = initial_activations

EvaluateRule(k) ==
    /\ pc = "call"
    /\ k \notin applied
    /\ acts' = rule_step(k, acts, args.dirtiness_mfs, args.quantity_mfs)
    /\ applied' = applied \cup {k}
    /\ UNCHANGED <<op, args, ret, pc, MFS, fls, log>>

EvaluateSomeRule == \E k \in 1..Len(RULES) : EvaluateRule(k)

ReturnActivations ==
    /\ pc = "call"
    /\ applied = 1..Len(RULES)
    /\ ret' = DictOutcome(acts)
    /\ pc' = "done"
    /\ UNCHANGED <<op, args, MFS, fls, log, applied, acts>>

NextAnyOrder ==
    \/ EvaluateSomeRule
    \/ ReturnActivations

SpecAnyOrder == InitAnyOrder /\ [][NextAnyOrder]_vars

(***************************************************************************)
(* Properties.                                                             *)
(***************************************************************************)
Done(name) == pc = "done" /\ op = name

Returned(name) == Done(name) /\ ret.raised = ""

LesserOf(a, b) == IF Le(a, b) THEN a ELSE b

StrictlyIncreasing(points) ==
    \A i \in 1..(Len(points) - 1) : Lt(points[i][1], points[i + 1][1])

\* The index of the first breakpoint of points whose x is x.
FirstAt(x, points) ==
    CHOOSE i \in 1..Len(points) :
        points[i][1] = x /\ \A k \in 1..(i - 1) : points[k][1] # x

\* C1 as claimed: get_membership on a non-empty list with non-decreasing x
\* returns the degree of every breakpoint whose x is the input, the first
\* breakpoint's degree for an input at or below the first x, and the last
\* breakpoint's degree for an input at or above the last x.
C1_TableValueAtEveryBreakpoint ==
    (Done("get_membership") /\ args.points # <<>>) =>
        LET x == args.input_val
            points == args.points
            n == Len(args.points)
        IN  /\ ret.raised = ""
            /\ \A i \in 1..n : points[i][1] = x => ret.value = points[i][2]
            /\ Le(x, points[1][1]) => ret.value = points[1][2]
            /\ Le(points[n][1], x) => ret.value = points[n][2]

\* C1 amended: get_membership on a non-empty list with non-decreasing x returns
\* the first breakpoint's degree for an input at or below the first x; the
\* last breakpoint's degree for an input above the first x and at or above the
\* last x; and for an input strictly between the first and the last x that is
\* the x of a breakpoint, the degree of the first breakpoint listed with that
\* x.  When the x are strictly increasing this is C1 as claimed.
C1_BreakpointAndClamp ==
    (Done("get_membership") /\ args.points # <<>>) =>
        LET x == args.input_val
            points == args.points
            n == Len(args.points)
        IN  /\ ret.raised = ""
            /\ Le(x, points[1][1]) => ret.value = points[1][2]
            /\ (Lt(points[1][1], x) /\ Le(points[n][1], x)) => ret.value = points[n][2]
            /\ (Lt(points[1][1], x) /\ Lt(x, points[n][1])
                    /\ \E i \in 1..n : points[i][1] = x)
                => ret.value = points[FirstAt(x, points)][2]
            /\ StrictlyIncreasing(points) =>
                   \A i \in 1..n : points[i][1] = x => ret.value = points[i][2]

\* C1 witness: the input is the x of a vertical segment strictly inside the
\* list, whose two breakpoints differ in degree, and the first one's degree
\* is returned.
C1_Witness ==
    /\ Returned("get_membership")
    /\ \E i \in 2..(Len(args.points) - 2) :
          /\ args.points[i][1] = args.input_val
          /\ args.points[i + 1][1] = args.input_val
          /\ args.points[i][2] # args.points[i + 1][2]
          /\ Lt(args.points[1][1], args.input_val)
          /\ Lt(args.input_val, args.points[Len(args.points)][1])
          /\ ret.value = args.points[i][2]

\* The firing strength of rule k as the claim states it: the lesser of the two
\* antecedent degrees, a missing label counting as 0.
Strength(k, dirtiness_mfs, quantity_mfs) ==
    LesserOf(IF RULES[k].d \in DOMAIN dirtiness_mfs THEN dirtiness_mfs[RULES[k].d] ELSE Zero,
             IF RULES[k].q \in DOMAIN quantity_mfs THEN quantity_mfs[RULES[k].q] ELSE Zero)

\* v is the greatest element of the set S of numbers, or 0 when S has none
\* above 0.
IsMaxOrZero(v, S) ==
    /\ v \in S \cup {Zero}
    /\ Le(Zero, v)
    /\ \A s \in S : Le(s, v)

SigmaY(curve) == sum_range([j \in DOMAIN curve |-> curve[j][2]], 1, Len(curve))

SigmaXY(curve) ==
    sum_range([j \in DOMAIN curve |-> Mul(curve[j][1], curve[j][2])], 1, Len(curve))

\* The curve of an array of y over speed_range.
SpeedCurve(ys) == [j \in DOMAIN ys |-> <<Whole(j - 1), ys[j]>>]

AllZero(dict) == \A k \in DOMAIN dict : dict[k] = Zero

CentroidOr(cog, curve, fallback) ==
    /\ SigmaY(curve) = Zero => cog = fallback
    /\ SigmaY(curve) # Zero => cog = Div(SigmaXY(curve), SigmaY(curve))

\* The samples of laundry.defuzzify: the NumSamples points 0, 1, ..., 100 with
\* the aggregated value at each.
IsAggregatedCurve(curve, activations) ==
    /\ Len(curve) = NumSamples
    /\ \A j \in 1..NumSamples :
          curve[j] = <<Whole(j - 1), aggregate(Whole(j - 1), activations, MFS.intensity)>>

\* C3: defuzzify returns sum(x*y)/sum(y) over all samples of the aggregated
\* curve, and when sum(y) = 0 (in particular when all activations are zero,
\* the curve then being all zero) the fallback: 0.0 in laundry.py, 50 in
\* FuzzyLogicSystem.
C3_CentroidOrFallback ==
    /\ Done("defuzzify") =>
          /\ ret.raised = ""
          /\ IsAggregatedCurve(ret.value[2], args.activations)
          /\ CentroidOr(ret.value[1], ret.value[2], Zero)
          /\ AllZero(args.activations) =>
                (ret.value[1] = Zero /\ \A j \in 1..NumSamples : ret.value[2][j][2] = Zero)
    /\ Done("laundry_main") =>
          /\ ret.raised = ""
          /\ IsAggregatedCurve(ret.value.agg_curve, ret.value.intensity_acts)
          /\ CentroidOr(ret.value.intensity_cog, ret.value.agg_curve, Zero)
    /\ Done("FLS.defuzzify") =>
          /\ ret.raised = ""
          /\ CentroidOr(ret.value, SpeedCurve(args.output_fuzzy_set), Whole(50))
    /\ Returned("FLS.evaluate") =>
          /\ Len(ret.value[4]) = 101
          /\ CentroidOr(ret.value[1], SpeedCurve(ret.value[4]), Whole(50))
          /\ AllZero(ret.value[3]) =>
                (ret.value[1] = Whole(50) /\ \A j \in 1..101 : ret.value[4][j] = Zero)

\* C3 witness: an evaluation of main.py in which no rule fires, with the
\* fallback 50 returned.
C3_Witness ==
    /\ Returned("FLS.evaluate")
    /\ AllZero(ret.value[3])
    /\ SigmaY(SpeedCurve(ret.value[4])) = Zero
    /\ ret.value[1] = Whole(50)

InUnit(y) == Le(Zero, y) /\ Le(y, One)

\* C4: with activation strengths in [0,1], every sample of the aggregated
\* curve is in [0,1], and is 0 when every activation is 0.
C4_CurveInUnitInterval ==
    /\ Done("aggregate") =>
          /\ ret.raised = ""
          /\ InUnit(ret.value)
          /\ AllZero(args.activations) => ret.value = Zero
    /\ Done("defuzzify") =>
          /\ ret.raised = ""
          /\ \A j \in DOMAIN ret.value[2] :
                /\ InUnit(ret.value[2][j][2])
                /\ AllZero(args.activations) => ret.value[2][j][2] = Zero
    /\ Done("laundry_main") =>
          /\ ret.raised = ""
          /\ \A j \in DOMAIN ret.value.agg_curve :
                /\ InUnit(ret.value.agg_curve[j][2])
                /\ AllZero(ret.value.intensity_acts) => ret.value.agg_curve[j][2] = Zero
    /\ Returned("FLS.aggregate_outputs") =>
          \A j \in DOMAIN ret.value[1] :
              /\ InUnit(ret.value[1][j])
              /\ AllZero(args.rule_outputs) => ret.value[1][j] = Zero
    /\ Returned("FLS.evaluate") =>
          \A j \in DOMAIN ret.value[4] :
              /\ InUnit(ret.value[4][j])
              /\ AllZero(ret.value[3]) => ret.value[4][j] = Zero

\* C4 witness: a sample where a set with membership above its activation
\* strength is clipped to that strength, strictly between 0 and 1.
C4_Witness ==
    /\ Returned("aggregate")
    /\ Lt(Zero, ret.value) /\ Lt(ret.value, One)
    /\ \E l \in DOMAIN args.activations :
          /\ ret.value = args.activations[l]
          /\ Lt(args.activations[l], get_membership(args.x_intensity, MFS.intensity[l]))

Hundred == Whole(MaxOutX)

\* C5: when the samples of the aggregated curve sum to more than 0, the crisp
\* output lies in [0, 100].
C5_CentroidInDomain ==
    /\ (Done("defuzzify") /\ Lt(Zero, SigmaY(ret.value[2]))) =>
          (ret.raised = "" /\ Le(Zero, ret.value[1]) /\ Le(ret.value[1], Hundred))
    /\ (Done("laundry_main") /\ Lt(Zero, SigmaY(ret.value.agg_curve))) =>
          /\ ret.raised = ""
          /\ Le(Zero, ret.value.intensity_cog)
          /\ Le(ret.value.intensity_cog, Hundred)
    /\ (Done("FLS.defuzzify") /\ Lt(Zero, SigmaY(SpeedCurve(args.output_fuzzy_set)))) =>
          (ret.raised = "" /\ Le(Zero, ret.value) /\ Le(ret.value, Hundred))
    /\ (Returned("FLS.evaluate") /\ Lt(Zero, SigmaY(SpeedCurve(ret.value[4])))) =>
          (Le(Zero, ret.value[1]) /\ Le(ret.value[1], Hundred))

\* C5 witness: a curve of main.py with a positive sum whose centroid is
\* strictly inside the domain.
C5_Witness ==
    /\ Returned("FLS.defuzzify")
    /\ Lt(Zero, SigmaY(SpeedCurve(args.output_fuzzy_set)))
    /\ Lt(Zero, ret.value) /\ Lt(ret.value, Hundred)

Clamp(x, lo, hi) == IF Lt(x, Whole(lo)) THEN Whole(lo) ELSE IF Lt(Whole(hi), x) THEN Whole(hi) ELSE x

C7_EmptyListRejected ==
    (Done("get_membership") /\ args.points = <<>>) => ret.raised # ""

RECURSIVE rules_of(_, _, _, _)
rules_of(k, S, dirtiness_mfs, quantity_mfs) ==
    IF k = 0 THEN initial_activations
    ELSE IF k \in S
         THEN rule_step(k, rules_of(k - 1, S, dirtiness_mfs, quantity_mfs),
                        dirtiness_mfs, quantity_mfs)
         ELSE rules_of(k - 1, S, dirtiness_mfs, quantity_mfs)

\* C9: in whatever order the rules are evaluated, the activations after a set
\* of rules are those the written order gives for that set, so that after all
\* nine the activation set is the one apply_rules returns.
C9_AnyOrderSameActivations ==
    /\ acts = rules_of(Len(RULES), applied, args.dirtiness_mfs, args.quantity_mfs)
    /\ applied = 1..Len(RULES) =>
          acts = apply_rules(args.dirtiness_mfs, args.quantity_mfs)
    /\ pc = "done" =>
          (ret.raised = "" /\
           ret.value = apply_rules(args.dirtiness_mfs, args.quantity_mfs))

\* C9 witness: all nine rules evaluated and returned, for a reading where two
\* rules concluding Strong fire with different nonzero strengths.
C9_Witness ==
    /\ pc = "done"
    /\ applied = 1..Len(RULES)
    /\ \E k1, k2 \in 1..Len(RULES) :
          /\ RULES[k1].out = "Strong" /\ RULES[k2].out = "Strong"
          /\ k1 < k2
          /\ Lt(Zero, Strength(k2, args.dirtiness_mfs, args.quantity_mfs))
          /\ Lt(Strength(k2, args.dirtiness_mfs, args.quantity_mfs),
                Strength(k1, args.dirtiness_mfs, args.quantity_mfs))
    /\ ret.value = apply_rules(args.dirtiness_mfs, args.quantity_mfs)

OnlyStrongAtOne(activations) ==
    /\ "Strong" \in DOMAIN activations
    /\ activations["Strong"] = One
    /\ \A l \in DOMAIN activations \ {"Strong"} : activations[l] = Zero

\* C10: over 101 samples of [0, 100], with Strong (0 at 60, 1 from 80 to 100)
\* the only activated label, at strength 1.0, the centroid is between 80 and
\* 100; dirtiness 10 with quantity 12 is such a case.
C10_StrongCentroid ==
    /\ (Done("defuzzify") /\ OnlyStrongAtOne(args.activations)) =>
          /\ ret.raised = ""
          /\ Len(ret.value[2]) = 101
          /\ Le(Whole(80), ret.value[1]) /\ Le(ret.value[1], Whole(100))
    /\ (Done("laundry_main") /\ args.dirtiness = Whole(10) /\ args.quantity = Whole(12)) =>
          /\ ret.raised = ""
          /\ ret.value.intensity_acts =
                [l \in IntensityLabels |-> IF l = "Strong" THEN One ELSE Zero]
          /\ Le(Whole(80), ret.value.intensity_cog)
          /\ Le(ret.value.intensity_cog, Whole(100))

\* C10 witness: the pass for dirtiness 10 and quantity 12, whose centroid is
\* 5167/61 (about 84.7).
C10_Witness ==
    /\ Returned("laundry_main")
    /\ args.dirtiness = Whole(10) /\ args.quantity = Whole(12)
    /\ MFS.intensity["Strong"] = <<P(0, 0), P(60, 0), P(80, 1), P(100, 1)>>
    /\ ret.value.intensity_cog = Frac(5167, 61)

\* The greatest number of a non-empty finite set of numbers.
GreatestOf(S) == CHOOSE v \in S : \A w \in S : Le(w, v)

\* The activation strength of a label, an absent label counting as 0.
StrengthOf(activations, l) ==
    IF l \in DOMAIN activations THEN activations[l] ELSE Zero

\* The maximum over all three intensity labels of min(strength, membership).
MaxOverAllLabels(x, activations) ==
    GreatestOf({LesserOf(StrengthOf(activations, l),
                         get_membership(x, MFS.intensity[l])) : l \in IntensityLabels})

\* The same over the two speed labels of main.py.
MaxOverSpeedLabels(x, rule_outputs, speed_functions) ==
    GreatestOf({LesserOf(rule_outputs[l],
                         get_membership_value(x, speed_functions[l][1],
                                              speed_functions[l][2])) : l \in SpeedLabels})

\* The activations with every label present, the absent ones at 0.
WithZeros(activations) == [l \in IntensityLabels |-> StrengthOf(activations, l)]

\* The activations with only the labels of strength above 0.
OnlyActive(activations) ==
    [l \in {k \in DOMAIN activations : Lt(Zero, activations[k])} |-> activations[l]]

\* C11: for every sample x and activation strengths in [0,1], the aggregated
\* value is the maximum over all output labels of min(strength,
\* membership(x, label)); leaving out the labels whose strength is not above 0
\* gives the same value as taking them at activation 0.
C11_SkippingIsActivationZero ==
    /\ Done("aggregate") =>
          /\ ret.raised = ""
          /\ ret.value = MaxOverAllLabels(args.x_intensity, args.activations)
          /\ ret.value = aggregate(args.x_intensity, WithZeros(args.activations),
                                   MFS.intensity)
          /\ ret.value = aggregate(args.x_intensity, OnlyActive(args.activations),
                                   MFS.intensity)
    /\ Done("defuzzify") =>
          /\ ret.raised = ""
          /\ \A j \in DOMAIN ret.value[2] :
                ret.value[2][j][2] = MaxOverAllLabels(ret.value[2][j][1], args.activations)
    /\ Returned("FLS.aggregate_outputs") =>
          \A j \in DOMAIN ret.value[1] :
              ret.value[1][j] =
                  MaxOverSpeedLabels(Whole(j - 1), args.rule_outputs, fls.speed_functions)

\* C11 witness: a sample where a label of strength 0 has a membership above 0,
\* another label is active, and the value returned is above 0.
C11_Witness ==
    /\ Returned("aggregate")
    /\ Lt(Zero, ret.value)
    /\ \E l \in DOMAIN args.activations :
          /\ args.activations[l] = Zero
          /\ Lt(Zero, get_membership(args.x_intensity, MFS.intensity[l]))
    /\ \E l \in DOMAIN args.activations : Lt(Zero, args.activations[l])

\* The input is strictly between the first and the last x of the list.
Interior(x, points) ==
    /\ points # <<>>
    /\ Lt(points[1][1], x)
    /\ Lt(x, points[Len(points)][1])

\* y is between y1 and y2, whichever is the greater.
Between(y, y1, y2) ==
    \/ Le(y1, y) /\ Le(y, y2)
    \/ Le(y2, y) /\ Le(y, y1)

\* y1 + (y2 - y1) * (x - x1) / (x2 - x1)
Interpolated(x, p1, p2) ==
    Add(p1[2], Div(Mul(Sub(p2[2], p1[2]), Sub(x, p1[1])), Sub(p2[1], p1[1])))

\* The value the claim gives for an input strictly inside the pair i, i + 1.
InsidePairValue(i) ==
    LET p1 == args.points[i]
        p2 == args.points[i + 1]
    IN  (Lt(p1[1], args.input_val) /\ Lt(args.input_val, p2[1])) =>
            /\ ret.raised = ""
            /\ p1[2] = p2[2] => ret.value = p1[2]
            /\ p1[2] # p2[2] => ret.value = Interpolated(args.input_val, p1, p2)
            /\ Between(ret.value, p1[2], p2[2])

\* The pair i, i + 1 is a vertical segment at the input.
VerticalAt(i) ==
    /\ args.points[i][1] = args.input_val
    /\ args.points[i + 1][1] = args.input_val

\* C12 as claimed: for an input strictly inside a pair x1 < x < x2,
\* get_membership returns y1 when y1 = y2 and otherwise
\* y1 + (y2-y1)*(x-x1)/(x2-x1), a value between y1 and y2; for an interior
\* input on a vertical segment (x1 = x2) it returns the y1 of that segment,
\* whichever vertical segment it is.
C12_FirstDegreeOfEveryVerticalSegment ==
    (Done("get_membership") /\ Interior(args.input_val, args.points)) =>
        \A i \in 1..(Len(args.points) - 1) :
            /\ InsidePairValue(i)
            /\ VerticalAt(i) => (ret.raised = "" /\ ret.value = args.points[i][2])

\* C12 amended: for an input strictly inside a pair x1 < x < x2,
\* get_membership returns y1 when y1 = y2 and otherwise
\* y1 + (y2-y1)*(x-x1)/(x2-x1), a value between y1 and y2; for an interior
\* input on one or more vertical segments it returns the y1 of the first of
\* them, the degree of the first breakpoint listed at that x.
C12_InterpolationAndFirstVertical ==
    (Done("get_membership") /\ Interior(args.input_val, args.points)) =>
        \A i \in 1..(Len(args.points) - 1) :
            /\ InsidePairValue(i)
            /\ (VerticalAt(i) /\ args.points[i - 1][1] # args.input_val) =>
                   (ret.raised = "" /\ ret.value = args.points[i][2])

\* C12 witness: an interior input on two stacked vertical segments whose first
\* breakpoints differ in degree; the first segment's y1 is returned, not the
\* second's.
C12_Witness ==
    /\ Returned("get_membership")
    /\ Interior(args.input_val, args.points)
    /\ \E i \in 2..(Len(args.points) - 2) :
          /\ VerticalAt(i) /\ VerticalAt(i + 1)
          /\ args.points[i][2] # args.points[i + 1][2]
          /\ ret.value = args.points[i][2]

\* An interior input strictly inside a sloped pair, off its middle, with the
\* interpolated value returned.
C12_InterpolationReached ==
    /\ Returned("get_membership")
    /\ \E i \in 1..(Len(args.points) - 1) :
          /\ Lt(args.points[i][1], args.input_val)
          /\ Lt(args.input_val, args.points[i + 1][1])
          /\ Lt(Zero, args.points[i][1])
          /\ args.points[i][2] # args.points[i + 1][2]
          /\ ret.value = Interpolated(args.input_val, args.points[i], args.points[i + 1])
          /\ ret.value # Div(Add(args.points[i][2], args.points[i + 1][2]), Whole(2))

\* C13: with the washing-machine tables and the nine rules, for every
\* dirtiness and quantity, inside or outside the domains, at least one output
\* label has an activation strength above 0 and the sum of the 101 samples is
\* above 0, so the pass returns the centroid and never defuzzify's 0.0
\* fallback.
C13_FallbackNeverTaken ==
    Done("laundry_main") =>
        /\ ret.raised = ""
        /\ \E l \in IntensityLabels : Lt(Zero, ret.value.intensity_acts[l])
        /\ Lt(Zero, SigmaY(ret.value.agg_curve))
        /\ ret.value.intensity_cog =
               Div(SigmaXY(ret.value.agg_curve), SigmaY(ret.value.agg_curve))
        /\ Lt(Zero, ret.value.intensity_cog)

\* C13 witness: a pass with both inputs outside their domains, where one
\* label alone of each input has a degree above 0, and a centroid above 0 is
\* returned.
C13_Witness ==
    /\ Returned("laundry_main")
    /\ Lt(args.dirtiness, Zero)
    /\ Lt(Whole(12), args.quantity)
    /\ Cardinality({l \in DirtinessLabels : Lt(Zero, ret.value.dirtiness_mfs[l])}) = 1
    /\ Cardinality({l \in QuantityLabels : Lt(Zero, ret.value.quantity_mfs[l])}) = 1
    /\ Lt(Zero, SigmaY(ret.value.agg_curve))
    /\ Lt(Zero, ret.value.intensity_cog)

====
